---- MODULE Spec2Model ----
(***************************************************************************)
(* A model of the "rater" Redis module (src/ratelimit.c): the GCRA         *)
(* decision function rater_limit and the command handler                   *)
(* RaterLimit_RedisCommand that reads the stored theoretical arrival time  *)
(* of a key, decides, and stores the new one back with an expiry.          *)
(*                                                                         *)
(* Numbers are the program's own: nanoseconds, milliseconds and seconds    *)
(* with the program's conversion factors, in signed 64-bit integers.  TLC  *)
(* computes with 32-bit integers, so a long long is a tuple: <<v>> when v  *)
(* fits TLC's integers and <<sign, magnitude>> with the magnitude in limbs *)
(* otherwise.  The C operators are computed exactly and then reduced to    *)
(* 64 bits; a result that does not fit is a signed overflow, which C       *)
(* leaves undefined: the model records it and lets the command either      *)
(* continue on the wrapped value or abort.                                 *)
(***************************************************************************)
EXTENDS Integers, Sequences, FiniteSets, TLC

VARIABLES
  clock, \* RATE_LIMITER_CLOCK: the time get_nanos() returns, in nanoseconds
  key,   \* the one key of the store: type, string value, expiry
  last,  \* the last command: its instant, arguments, result and reply
  hist,  \* history of the commands so far, for the properties over sequences
  noprobe \* the same commands without the probes: their key and last reply

vars == <<clock, key, last, hist, noprobe>>

----------------------------------------------------------------------------
(* Natural numbers beyond TLC's integers: little-endian sequences of limbs  *)
(* in base Base, without leading zero limbs; zero is the empty sequence.    *)
(* The operators look at their arguments first and work on all limbs at     *)
(* once, which keeps TLC's evaluation shallow.                              *)

LimbBits == 2 ^ 3

Base == 2 ^ LimbBits

\* The largest magnitude TLC's own integers are used for.
MaxInt == (2 ^ 30 - 1) * 2 + 1

\* F(v), with v computed before F is applied to it.
With(v, F(_)) == CHOOSE r \in {F(x) : x \in {v}} : TRUE

\* The greatest element of a non-empty set of numbers.
Greatest(S) == CHOOSE i \in S : \A j \in S : j <= i

\* Limb i of m, 0 beyond its length.
Limb(m, i) == IF i <= Len(m) THEN m[i] ELSE 0

\* The limbs without the leading zero limbs.
MagStrip(m) ==
  LET nz == {i \in 1..Len(m) : m[i] # 0}
  IN IF nz = {} THEN <<>> ELSE SubSeq(m, 1, Greatest(nz))

\* The magnitude of n for 0 <= n <= MaxInt.
MagFromInt(n) ==
  IF n < Base THEN (IF n = 0 THEN <<>> ELSE <<n>>)
  ELSE MagStrip(<<n % Base, (n \div Base) % Base, (n \div (Base * Base)) % Base,
                  n \div (Base * Base * Base)>>)

\* The number of a magnitude of at most MaxInt.
MagToInt(m) ==
  Limb(m, 1) + Base * (Limb(m, 2) + Base * (Limb(m, 3) + Base * Limb(m, 4)))

\* -1, 0 or 1 as a < b, a = b or a > b.
MagCmp(a, b) ==
  IF Len(a) < Len(b) THEN -1
  ELSE IF Len(a) > Len(b) THEN 1
  ELSE LET differ == {i \in 1..Len(a) : a[i] # b[i]}
       IN IF differ = {} THEN 0
          ELSE IF a[Greatest(differ)] < b[Greatest(differ)] THEN -1 ELSE 1

\* a + b: the sums of the limbs, and a carry into limb i when a limb below it
\* overflows and the limbs between them are full.
MagAdd(a, b) ==
  IF a = <<>> THEN b
  ELSE IF b = <<>> THEN a
  ELSE LET n == (IF Len(a) > Len(b) THEN Len(a) ELSE Len(b)) + 1
           s == [i \in 1..n |-> Limb(a, i) + Limb(b, i)]
           carry(i) ==
             IF \E j \in 1..(i - 1) :
                  s[j] >= Base /\ \A k \in (j + 1)..(i - 1) : s[k] = Base - 1
             THEN 1 ELSE 0
       IN MagStrip([i \in 1..n |-> (s[i] + carry(i)) % Base])

\* a - b for a >= b: the differences of the limbs, and a borrow from limb i
\* when a limb below it is negative and the limbs between them are zero.
MagSub(a, b) ==
  IF a = <<>> \/ b = <<>> THEN a
  ELSE LET d == [i \in 1..Len(a) |-> a[i] - Limb(b, i)]
           borrow(i) ==
             IF \E j \in 1..(i - 1) :
                  d[j] < 0 /\ \A k \in (j + 1)..(i - 1) : d[k] = 0
             THEN 1 ELSE 0
       IN MagStrip([i \in 1..Len(a) |-> (d[i] - borrow(i)) % Base])

\* a * Base^n
MagShift(a, n) == IF a = <<>> \/ n = 0 THEN a ELSE [i \in 1..n |-> 0] \o a

\* a \div Base^n
MagHigh(a, n) == IF Len(a) <= n THEN <<>> ELSE SubSeq(a, n + 1, Len(a))

\* a % Base^n
MagLow(a, n) == IF Len(a) <= n THEN a ELSE MagStrip(SubSeq(a, 1, n))

\* a * k for one limb k: the low limbs of the products plus their high limbs
\* one place up.
MagMulLimb(a, k) ==
  IF a = <<>> \/ k = 0 THEN <<>>
  ELSE MagAdd(MagStrip([i \in 1..Len(a) |-> (a[i] * k) % Base]),
              MagShift(MagStrip([i \in 1..Len(a) |-> (a[i] * k) \div Base]), 1))

\* a times the limbs lo..hi of b in their places, by halves.
RECURSIVE MagMulRange(_, _, _, _)
MagMulRange(a, b, lo, hi) ==
  IF lo = hi THEN MagShift(MagMulLimb(a, b[lo]), lo - 1)
  ELSE MagAdd(MagMulRange(a, b, lo, (lo + hi) \div 2),
              MagMulRange(a, b, (lo + hi) \div 2 + 1, hi))

MagMul(a, b) ==
  IF a = <<>> \/ b = <<>> THEN <<>> ELSE MagMulRange(a, b, 1, Len(b))

\* 2^n
MagPow2(n) == MagShift(<<2 ^ (n % LimbBits)>>, n \div LimbBits)

\* a * 2^n
MagMulPow2(a, n) == MagShift(MagMulLimb(a, 2 ^ (n % LimbBits)), n \div LimbBits)

\* a \div 2^n
MagDivPow2(a, n) ==
  LET h == MagHigh(a, n \div LimbBits)
      t == 2 ^ (n % LimbBits)
  IN IF h = <<>> THEN <<>>
     ELSE MagStrip([i \in 1..Len(h) |->
                      (h[i] \div t) + (Limb(h, i + 1) % t) * (Base \div t)])

\* a % 2^n
MagModPow2(a, n) ==
  IF Len(a) <= n \div LimbBits THEN a
  ELSE MagStrip(SubSeq(a, 1, n \div LimbBits)
                  \o <<a[n \div LimbBits + 1] % (2 ^ (n % LimbBits))>>)

\* The number of bits of a magnitude (0 for zero).
MagBits(m) ==
  IF m = <<>> THEN 0
  ELSE LimbBits * (Len(m) - 1)
         + (CHOOSE e \in 1..LimbBits : 2 ^ (e - 1) <= m[Len(m)] /\ m[Len(m)] < 2 ^ e)

MagOdd(m) == m # <<>> /\ m[1] % 2 = 1

\* The quotient limb of a by b > 0 for a < b * Base.  With two limbs of b and
\* the limbs of a above them the quotient is known to within two.
MagDigit(a, b) ==
  IF MagCmp(a, b) < 0 THEN 0
  ELSE IF Len(b) = 1 THEN MagToInt(a) \div b[1]
  ELSE LET n == Len(b)
           bt == b[n] * Base + b[n - 1]
           at == (Limb(a, n + 1) * Base + a[n]) * Base + a[n - 1]
           low == at \div (bt + 1)
           high == IF (at + 1) \div bt < Base THEN (at + 1) \div bt ELSE Base - 1
       IN Greatest({q \in low..high : MagCmp(MagMulLimb(b, q), a) <= 0})

\* One step of the long division: the limb below the remainder so far.
MagDivStep(h, limb, b) ==
  LET cur == MagStrip(<<limb>> \o h.r)
      q == MagDigit(cur, b)
  IN [q |-> MagStrip(<<q>> \o h.q), r |-> MagSub(cur, MagMulLimb(b, q))]

\* Quotient and remainder of a by b > 0, limb by limb from the most
\* significant limb.
RECURSIVE MagLongDiv(_, _)
MagLongDiv(a, b) ==
  IF Len(a) < Len(b) THEN [q |-> <<>>, r |-> a]
  ELSE With(MagLongDiv(Tail(a), b), LAMBDA h : MagDivStep(h, a[1], b))

----------------------------------------------------------------------------
(* Integers: <<v>> when |v| <= MaxInt, else <<sign, magnitude>> with sign   *)
(* 1 or -1.  Every integer has one representation, so = is equality.       *)

MaxIntMag == MagFromInt(MaxInt)

IsNarrow(x) == Len(x) = 1

Abs(a) == IF a < 0 THEN -a ELSE a

ZSign(x) ==
  IF IsNarrow(x) THEN (IF x[1] < 0 THEN -1 ELSE IF x[1] = 0 THEN 0 ELSE 1) ELSE x[1]

ZMag(x) == IF IsNarrow(x) THEN MagFromInt(Abs(x[1])) ELSE x[2]

ZMake(sign, mag) ==
  IF MagCmp(mag, MaxIntMag) <= 0
  THEN (IF sign < 0 THEN <<-MagToInt(mag)>> ELSE <<MagToInt(mag)>>)
  ELSE <<sign, mag>>

ZNeg(x) == IF IsNarrow(x) THEN <<-x[1]>> ELSE <<-x[1], x[2]>>

ZCmp(x, y) ==
  IF IsNarrow(x) /\ IsNarrow(y)
  THEN (IF x[1] < y[1] THEN -1 ELSE IF x[1] > y[1] THEN 1 ELSE 0)
  ELSE IF ZSign(x) # ZSign(y) THEN (IF ZSign(x) < ZSign(y) THEN -1 ELSE 1)
  ELSE ZSign(x) * MagCmp(ZMag(x), ZMag(y))

\* x < y
Less(x, y) == ZCmp(x, y) < 0

\* x <= y
Leq(x, y) == ZCmp(x, y) <= 0

AddFits(a, b) == IF b >= 0 THEN a <= MaxInt - b ELSE a >= (-MaxInt) - b

\* The difference of two magnitudes, the smaller taken from the greater.
MagDiff(a, b) == IF MagCmp(a, b) >= 0 THEN MagSub(a, b) ELSE MagSub(b, a)

ZAdd(x, y) ==
  IF IsNarrow(x) /\ IsNarrow(y) /\ AddFits(x[1], y[1]) THEN <<x[1] + y[1]>>
  ELSE IF ZSign(x) = 0 THEN y
  ELSE IF ZSign(y) = 0 THEN x
  ELSE IF ZSign(x) = ZSign(y) THEN ZMake(ZSign(x), MagAdd(ZMag(x), ZMag(y)))
  ELSE ZMake(IF MagCmp(ZMag(x), ZMag(y)) >= 0 THEN ZSign(x) ELSE ZSign(y),
             MagDiff(ZMag(x), ZMag(y)))

ZSub(x, y) == ZAdd(x, ZNeg(y))

MulFits(a, b) == a = 0 \/ Abs(b) <= MaxInt \div Abs(a)

ZMul(x, y) ==
  IF IsNarrow(x) /\ IsNarrow(y) /\ MulFits(x[1], y[1]) THEN <<x[1] * y[1]>>
  ELSE ZMake(ZSign(x) * ZSign(y), MagMul(ZMag(x), ZMag(y)))

\* The quotient truncated toward zero, for y # 0.
ZDiv(x, y) ==
  IF IsNarrow(x) /\ IsNarrow(y)
  THEN <<(IF (x[1] < 0) = (y[1] < 0) THEN 1 ELSE -1) * (Abs(x[1]) \div Abs(y[1]))>>
  ELSE ZMake(ZSign(x) * ZSign(y), MagLongDiv(ZMag(x), ZMag(y)).q)

----------------------------------------------------------------------------
(* long long: the integers of [-2^63, 2^63 - 1].  The operators of C on     *)
(* long long, with the result reduced modulo 2^64 as two's complement       *)
(* hardware does it when the exact result does not fit.                     *)

LLONG_MAX == <<1, MagSub(MagPow2(63), <<1>>)>>

LLONG_MIN == <<-1, MagPow2(63)>>

InLongLong(x) == IsNarrow(x) \/ (Leq(LLONG_MIN, x) /\ Leq(x, LLONG_MAX))

\* The residue modulo 2^64 of the integer of sign sign whose magnitude has
\* the residue m.
Residue(sign, m) ==
  IF sign >= 0 \/ m = <<>> THEN m ELSE MagSub(MagPow2(64), m)

\* The two's complement reading of the 64 bits u.
TwosComplement(u) ==
  IF MagCmp(u, MagPow2(63)) < 0 THEN ZMake(1, u)
  ELSE ZMake(-1, MagSub(MagPow2(64), u))

\* The long long congruent to x modulo 2^64.
Wrap(x) ==
  IF InLongLong(x) THEN x
  ELSE TwosComplement(Residue(ZSign(x), MagModPow2(ZMag(x), 64)))

\* a + b
Add(a, b) == Wrap(ZAdd(a, b))

\* a - b
Sub(a, b) == Wrap(ZSub(a, b))

\* a * b
Mul(a, b) == Wrap(ZMul(a, b))

\* -a
Neg(a) == Wrap(ZNeg(a))

\* a / b for b # 0
Div(a, b) == Wrap(ZDiv(a, b))

\* The integer constant n of the program text.
LL(n) == <<n>>

----------------------------------------------------------------------------
(* double: the conversion of a long long to double rounds to 53            *)
(* significant bits, to nearest and to even on a tie; the quotient of two   *)
(* doubles is rounded the same way, and the cast back to long long          *)
(* truncates toward zero.                                                   *)

\* The double nearest to the integer of magnitude m.
RoundToDouble(m) ==
  LET e == MagBits(m)
  IN IF e <= 53 THEN m
     ELSE LET q == MagDivPow2(m, e - 53)
              c == MagCmp(MagModPow2(m, e - 53), MagPow2(e - 54))
              up == c > 0 \/ (c = 0 /\ MagOdd(q))
          IN MagMulPow2(IF up THEN MagAdd(q, <<1>>) ELSE q, e - 53)

\* The integer part of the double quotient n / c of two doubles with integer
\* values n >= 0 and c > 0: the exact quotient q and remainder r, the
\* quotient rounded to 53 bits when it has more, and q + 1 when n / c is so
\* close below it that the double nearest to n / c is q + 1.
DoubleQuotientTrunc(n, c) ==
  With(MagLongDiv(n, c), LAMBDA d :
  With(MagBits(d.q), LAMBDA e :
    IF d.r = <<>> THEN RoundToDouble(d.q)
    ELSE IF e >= 54
      THEN LET up == MagCmp(MagModPow2(d.q, e - 53), MagPow2(e - 54)) >= 0
               q == MagDivPow2(d.q, e - 53)
           IN MagMulPow2(IF up THEN MagAdd(q, <<1>>) ELSE q, e - 53)
    ELSE IF e = 53
      THEN LET c2 == MagCmp(MagAdd(d.r, d.r), c)
               up == c2 > 0 \/ (c2 = 0 /\ MagOdd(d.q))
           IN IF up THEN MagAdd(d.q, <<1>>) ELSE d.q
    ELSE IF MagCmp(MagMulPow2(MagSub(c, d.r), 54 - e), c) <= 0
      THEN MagAdd(d.q, <<1>>)
    ELSE d.q))

\* The integer part of (double) n / c for c > 0.  Below 2^53 the conversions
\* are exact and the double quotient has the integer part of the exact
\* quotient.
DoubleDivide(n, c) ==
  IF IsNarrow(n) /\ IsNarrow(c) THEN ZDiv(n, c)
  ELSE ZMake(ZSign(n), DoubleQuotientTrunc(RoundToDouble(ZMag(n)),
                                           RoundToDouble(ZMag(c))))

\* (long long) d for the integer part of a double.  A value of 2^63, which
\* long long does not hold, gives LLONG_MIN as the conversion instruction of
\* x86-64 does.
CastToLongLong(d) == IF InLongLong(d) THEN d ELSE LLONG_MIN

----------------------------------------------------------------------------
(* Program constants. *)

NSEC_PER_SEC == 1000000000

USEC_PER_SEC == 1000000

MSEC_PER_SEC == 1000

----------------------------------------------------------------------------
(* Strings, as sequences of characters, and the conversions between        *)
(* strings and long long used on the stored value and on the arguments.    *)

Digits == <<"0", "1", "2", "3", "4", "5", "6", "7", "8", "9">>

IsDigit(c) == \E i \in 1..Len(Digits) : Digits[i] = c

DigitValue(c) == (CHOOSE i \in 1..Len(Digits) : Digits[i] = c) - 1

RECURSIVE UnsignedToString(_)
UnsignedToString(n) ==
  IF n < Len(Digits) THEN <<Digits[n + 1]>>
  ELSE Append(UnsignedToString(n \div Len(Digits)), Digits[(n % Len(Digits)) + 1])

\* Wide numbers are written and read in groups of as many decimal digits as
\* always fit TLC's integers.
GroupDigits == Len(UnsignedToString(MaxInt)) - 1

Group == 10 ^ GroupDigits

\* The digits of a group below the most significant one, with its leading
\* zeros.
PaddedGroup(n) ==
  [i \in 1..(GroupDigits - Len(UnsignedToString(n))) |-> "0"] \o UnsignedToString(n)

RECURSIVE MagToString(_)
MagToString(m) ==
  IF MagCmp(m, MaxIntMag) <= 0 THEN UnsignedToString(MagToInt(m))
  ELSE With(MagLongDiv(m, MagFromInt(Group)),
            LAMBDA d : MagToString(d.q) \o PaddedGroup(MagToInt(d.r)))

\* RedisModule_CreateStringFromLongLong: the decimal representation.
CreateStringFromLongLong(x) ==
  IF IsNarrow(x)
  THEN (IF x[1] < 0 THEN <<"-">> \o UnsignedToString(-x[1]) ELSE UnsignedToString(x[1]))
  ELSE (IF x[1] < 0 THEN <<"-">> ELSE <<>>) \o MagToString(x[2])

RECURSIVE DigitsValue(_)
DigitsValue(s) ==
  IF s = <<>> THEN 0
  ELSE DigitsValue(SubSeq(s, 1, Len(s) - 1)) * Len(Digits) + DigitValue(s[Len(s)])

RECURSIVE MagFromDigits(_)
MagFromDigits(s) ==
  IF Len(s) <= GroupDigits THEN MagFromInt(DigitsValue(s))
  ELSE With(MagFromDigits(SubSeq(s, 1, Len(s) - GroupDigits)),
            LAMBDA high :
              MagAdd(MagMul(high, MagFromInt(Group)),
                     MagFromInt(DigitsValue(SubSeq(s, Len(s) - GroupDigits + 1, Len(s))))))

\* The strings of the syntax RedisModule_StringToLongLong accepts (Redis
\* string2ll): "0", or an optional minus sign followed by digits of which the
\* first is not "0".
IsLongLongString(s) ==
  \/ s = <<"0">>
  \/ LET body == IF s # <<>> /\ s[1] = "-" THEN Tail(s) ELSE s
     IN /\ body # <<>>
        /\ body[1] # "0"
        /\ \A i \in 1..Len(body) : IsDigit(body[i])

\* The number a string stands for is accepted when it is a long long.
InRange(value) ==
  IF InLongLong(value) THEN [ok |-> TRUE, value |-> value]
  ELSE [ok |-> FALSE, value |-> LL(0)]

\* RedisModule_StringToLongLong: [ok, value]; ok is REDISMODULE_OK.  A number
\* outside long long is refused.
StringToLongLong(s) ==
  IF ~IsLongLongString(s) THEN [ok |-> FALSE, value |-> LL(0)]
  ELSE InRange(ZMake(IF s[1] = "-" THEN -1 ELSE 1,
                     MagFromDigits(IF s[1] = "-" THEN Tail(s) ELSE s)))

----------------------------------------------------------------------------
(* rater_limit, src/ratelimit.c lines 70-131.  An expression of the C code  *)
(* is an operator that returns its exact value; the function takes the      *)
(* value modulo 2^64 and notes when the exact value did not fit.            *)

\* The long long a C expression of exact value x gives, and whether x fits.
Value(x) == [v |-> Wrap(x), fits |-> InLongLong(x)]

\* Line 78 and line 90: burst + 1.
limit_of(burst) == ZAdd(burst, LL(1))

\* Line 85: period_in_sec * NSEC_PER_SEC.
period_in_nsec(period_in_sec) == ZMul(period_in_sec, LL(NSEC_PER_SEC))

\* Lines 84-85: the integer part of the double quotient, before the cast.
emission_interval(period_nsec, count_per_period) ==
  DoubleDivide(period_nsec, count_per_period)

\* Line 90.
delay_variation_tolerance(ei, limit) == ZMul(ei, limit)

\* Lines 97-99: a stored value of 0 (or no stored value) is a fresh bucket.
effective_tat(tat, now) == IF tat = LL(0) THEN now ELSE tat

\* Line 101.
increment_of(ei, quantity) == ZMul(ei, quantity)

\* Lines 103-107.
candidate_tat(tat, now, increment) ==
  IF Less(tat, now) THEN ZAdd(now, increment) ELSE ZAdd(tat, increment)

\* A request blocked also when it is permitted exactly now.
blocked_nonstrict(diff) == Leq(diff, LL(0))

\* Line 112: the request is blocked.
blocked(diff) == Less(diff, LL(0))

\* Lines 123-126: remaining, and whether -emission_interval and the quotient
\* are defined; the division is by zero when emission_interval is 0.
remaining_of(next, ei) ==
  With(Value(ZNeg(ei)), LAMBDA minus_ei :
  With(Less(minus_ei.v, next), LAMBDA divides :
  With(Value(IF divides /\ ei # LL(0) THEN ZDiv(next, ei) ELSE LL(0)),
       LAMBDA quotient :
    [v |-> quotient.v,
     defined |-> minus_ei.fits /\ quotient.fits /\ ~(divides /\ ei = LL(0))])))

\* Lines 78-90: what rater_limit derives from the configuration.  quotient
\* is the integer part of the double of lines 84-85 before the cast.
config_locals(burst, count_per_period, period_in_sec) ==
  With(Value(limit_of(burst)), LAMBDA limit :
  With(Value(period_in_nsec(period_in_sec)), LAMBDA nsec :
  With(emission_interval(nsec.v, count_per_period), LAMBDA quotient :
  With(CastToLongLong(quotient), LAMBDA ei :
  With(Value(delay_variation_tolerance(ei, limit.v)), LAMBDA tolerance :
    [limit |-> limit.v,
     emission_interval |-> ei,
     tolerance |-> tolerance.v,
     defined |-> /\ limit.fits
                 /\ nsec.fits
                 /\ InLongLong(quotient)
                 /\ tolerance.fits])))))

\* Lines 93-111: the arrival times, c being the locals of lines 78-90.
arrival_locals(c, tat0, quantity, now) ==
  With(effective_tat(tat0, now), LAMBDA tat :
  With(Value(increment_of(c.emission_interval, quantity)), LAMBDA increment :
  With(Value(candidate_tat(tat, now, increment.v)), LAMBDA new_tat :
  With(Value(ZSub(new_tat.v, c.tolerance)), LAMBDA allow_at :
  With(Value(ZSub(now, allow_at.v)), LAMBDA diff :
    [tat |-> tat,
     increment |-> increment.v,
     new_tat |-> new_tat.v,
     diff |-> diff.v,
     defined |-> /\ increment.fits
                 /\ new_tat.fits
                 /\ allow_at.fits
                 /\ diff.fits])))))

\* Lines 112-130: the verdict.  The out-parameters and the return value
\* (new_tat) of rater_limit, with the function's locals kept for inspection:
\* tat is the value after lines 97-99, ttl_ns is *ttl before line 128 and ttl
\* is *ttl after it (milliseconds).  undefined tells that an expression
\* overflowed long long or divided by zero.  Line 117, -diff / NSEC_PER_SEC,
\* has two readings that differ when diff is LLONG_MIN and -diff overflows:
\* retry_after negates modulo 2^64 and then divides, retry_after_folded
\* divides diff by -NSEC_PER_SEC, which is how gcc compiles the line.
verdict_locals(c, a, now) ==
  With(blocked(a.diff), LAMBDA is_blocked :
  With(Value(IF is_blocked THEN ZSub(a.tat, now) ELSE ZSub(a.new_tat, now)),
       LAMBDA ttl :
  With(is_blocked /\ Leq(a.increment, c.tolerance), LAMBDA retries :
  With(Value(IF retries THEN ZNeg(a.diff) ELSE LL(0)), LAMBDA minus_diff :
  With(Value(ZSub(c.tolerance, ttl.v)), LAMBDA next :
  With(remaining_of(next.v, c.emission_interval), LAMBDA remaining :
    [limit |-> c.limit,
     emission_interval |-> c.emission_interval,
     tolerance |-> c.tolerance,
     tat |-> a.tat,
     increment |-> a.increment,
     diff |-> a.diff,
     limited |-> IF is_blocked THEN LL(1) ELSE LL(0),
     new_tat |-> IF is_blocked THEN LL(0) ELSE a.new_tat,
     ttl_ns |-> ttl.v,
     retry_after |-> IF retries THEN Div(minus_diff.v, LL(NSEC_PER_SEC))
                     ELSE LL(-1),
     retry_after_folded |-> IF retries THEN Div(a.diff, LL(-NSEC_PER_SEC))
                            ELSE LL(-1),
     remaining |-> remaining.v,
     ttl |-> Div(ttl.v, LL(USEC_PER_SEC)),
     undefined |-> ~(/\ c.defined
                     /\ a.defined
                     /\ ttl.fits
                     /\ minus_diff.fits
                     /\ next.fits
                     /\ remaining.defined)]))))))

rater_limit(tat, burst, count_per_period, period_in_sec, quantity, now) ==
  With(config_locals(burst, count_per_period, period_in_sec), LAMBDA c :
  With(arrival_locals(c, tat, quantity, now), LAMBDA a :
    verdict_locals(c, a, now)))

----------------------------------------------------------------------------
(* The key of the store, as the module API shows it.                       *)

\* A key that does not exist (REDISMODULE_KEYTYPE_EMPTY).  type is "empty",
\* "string" or "other"; val is the string; expire is the absolute time of
\* expiry in milliseconds when volatile.
EmptyKey == [type |-> "empty", val |-> <<>>, volatile |-> FALSE, expire |-> LL(0)]

\* The store's own clock, in milliseconds, at the instant get_nanos() = now
\* (RATE_LIMITER_CLOCK is CLOCK_REALTIME unless USE_MONOTONIC_CLOCK is set).
mstime(now) == Div(now, LL(NSEC_PER_SEC \div MSEC_PER_SEC))

\* RedisModule_OpenKey: a volatile key whose time has passed is gone.
OpenKey(k, now) ==
  IF k.type # "empty" /\ k.volatile /\ Less(k.expire, mstime(now)) THEN EmptyKey
  ELSE k

\* RedisModule_StringSet: the key becomes a string and loses its expiry.
StringSet(k, str) ==
  [type |-> "string", val |-> str, volatile |-> FALSE, expire |-> LL(0)]

\* RedisModule_SetExpire(key, expire): expire is relative, in milliseconds;
\* -1 (REDISMODULE_NO_EXPIRE) removes the expiry, another negative value or an
\* empty key is refused and changes nothing.
SetExpire(k, expire, now) ==
  IF k.type = "empty" \/ (Less(expire, LL(0)) /\ expire # LL(-1)) THEN k
  ELSE IF expire = LL(-1) THEN [k EXCEPT !.volatile = FALSE, !.expire = LL(0)]
  ELSE [k EXCEPT !.volatile = TRUE, !.expire = Add(mstime(now), expire)]

\* A handler that stores whatever rater_limit returns.
store_back_always(new_tat) == TRUE

\* Line 202: whether rater_limit's result is stored back on the key.
store_back(new_tat) == Less(LL(0), new_tat)

\* Lines 202-208.
StoreNewTat(k, res, now) ==
  IF store_back(res.new_tat)
  THEN SetExpire(StringSet(k, CreateStringFromLongLong(res.new_tat)), res.ttl, now)
  ELSE k

----------------------------------------------------------------------------
(* RaterLimit_RedisCommand, src/ratelimit.c lines 133-225.                 *)

NoResult ==
  [new_tat |-> LL(0), limited |-> LL(0), limit |-> LL(0), remaining |-> LL(0),
   retry_after |-> LL(0), retry_after_folded |-> LL(0), ttl |-> LL(0),
   ttl_ns |-> LL(0), tat |-> LL(0),
   emission_interval |-> LL(0), tolerance |-> LL(0), increment |-> LL(0),
   diff |-> LL(0), undefined |-> FALSE]

NoArgs ==
  [burst |-> LL(0), count_per_period |-> LL(0), period_in_sec |-> LL(0),
   quantity |-> LL(0)]

ErrorReply(msg) ==
  [err |-> msg, limited |-> LL(0), limit |-> LL(0), remaining |-> LL(0),
   retry_after |-> LL(0), ttl |-> LL(0)]

\* Lines 212-222: the array of five integers.
ArrayReply(res) ==
  [err |-> "", limited |-> res.limited, limit |-> res.limit,
   remaining |-> res.remaining, retry_after |-> res.retry_after,
   ttl |-> Div(res.ttl, LL(MSEC_PER_SEC))]

\* A handler that deletes the key of a command it rejects.
RejectedAndReset(k, msg) ==
  [key |-> EmptyKey, seen |-> k, args |-> NoArgs, res |-> NoResult,
   reply |-> ErrorReply(msg)]

\* A command that ends in an error: the key is closed as it was opened.
Rejected(k, msg) ==
  [key |-> k, seen |-> k, args |-> NoArgs, res |-> NoResult,
   reply |-> ErrorReply(msg)]

\* The arguments as parsed (lines 164-193), each [ok, value]; without a
\* sixth argument the quantity is 1.
ParseArgs(argv) ==
  [burst |-> StringToLongLong(argv[3]),
   count_per_period |-> StringToLongLong(argv[4]),
   period_in_sec |-> StringToLongLong(argv[5]),
   quantity |-> IF Len(argv) = 6 THEN StringToLongLong(argv[6])
                ELSE [ok |-> TRUE, value |-> LL(1)]]

ArgsOf(parsed) ==
  [burst |-> parsed.burst.value,
   count_per_period |-> parsed.count_per_period.value,
   period_in_sec |-> parsed.period_in_sec.value,
   quantity |-> parsed.quantity.value]

\* Lines 195-224: the calculation, the store and the reply.
Decided(opened, args, res, now) ==
  [key |-> StoreNewTat(opened, res, now), seen |-> opened, args |-> args,
   res |-> res, reply |-> ArrayReply(res)]

\* Lines 139-224 on the key as opened, stored being the stored string as
\* parsed at line 152 and p the arguments as parsed.
Handle(opened, stored, p, now) ==
  IF opened.type = "string" /\ ~stored.ok
    THEN Rejected(opened, "ERR invalid stored rater")
  ELSE IF opened.type \notin {"string", "empty"}
    THEN Rejected(opened, "WRONGTYPE")
  ELSE IF ~p.burst.ok \/ Less(p.burst.value, LL(0))
    THEN Rejected(opened, "ERR invalid burst")
  ELSE IF ~p.count_per_period.ok \/ Leq(p.count_per_period.value, LL(0))
    THEN Rejected(opened, "ERR invalid count_per_period")
  ELSE IF ~p.period_in_sec.ok \/ Leq(p.period_in_sec.value, LL(0))
    THEN Rejected(opened, "ERR invalid period_in_sec")
  ELSE IF ~p.quantity.ok \/ Less(p.quantity.value, LL(0))
    THEN Rejected(opened, "ERR invalid quantity")
  ELSE Decided(opened, ArgsOf(p),
               rater_limit(IF opened.type = "string" THEN stored.value ELSE LL(0),
                           p.burst.value, p.count_per_period.value,
                           p.period_in_sec.value, p.quantity.value, now),
               now)

\* The whole handler on the key k with the arguments argv (argv[1] is the
\* command name, so C's argv[i] is argv[i + 1] and argc is Len(argv)) at the
\* instant now, every long long operation giving its result modulo 2^64.
\* The result holds the key after the command (key), the key as opened
\* (seen), the parsed arguments, rater_limit's result and the reply.
Command(k, argv, now) ==
  IF Len(argv) < 5 \/ Len(argv) > 6
  THEN Rejected(k, "ERR wrong number of arguments")
  ELSE With(OpenKey(k, now), LAMBDA opened :
         Handle(opened, StringToLongLong(opened.val), ParseArgs(argv), now))

\* The command that stops inside rater_limit, as a build that traps signed
\* overflow does: nothing is stored and no verdict is replied.
Trapped(out) ==
  [key |-> out.seen, seen |-> out.seen, args |-> out.args,
   res |-> [NoResult EXCEPT !.undefined = TRUE],
   reply |-> ErrorReply("no reply")]

\* The command in a build that compiles line 117 as diff / -NSEC_PER_SEC:
\* the same command unless -diff overflows.
Folded(out) ==
  [out EXCEPT !.res.retry_after = out.res.retry_after_folded,
              !.reply.retry_after =
                 IF out.reply.err = "" THEN out.res.retry_after_folded ELSE @]

\* What a build of the program can do with the command.  An overflow of a
\* long long expression, or a division by zero, is undefined in C: the command
\* then goes on with the result modulo 2^64 (a build with -fwrapv), goes on
\* with line 117 compiled as a division by -NSEC_PER_SEC (the ordinary builds
\* of gcc), or stops where it is (a build that traps overflow).
OutcomesOf(out) ==
  IF out.res.undefined THEN {out, Folded(out), Trapped(out)} ELSE {out}

Outcomes(k, argv, now) == OutcomesOf(Command(k, argv, now))

----------------------------------------------------------------------------
(* The state machine: the clock advances, and clients send commands which  *)
(* the store runs one at a time, each to completion.                       *)

\* The number of commands of a behaviour.
MaxCalls == 3

\* The instants at which the clock is read: two in one millisecond, two
\* nanoseconds apart, and the first instant of the next millisecond.
Instants == {999997, 999999, 1000000}

\* The configurations (burst, count per period, period) the clients use:
\* emission intervals of 2 ns, 1 ns, 0 ns and half a second.
Configs ==
  { <<LL(0), LL(500000000), LL(1)>>, <<LL(1), LL(1000000000), LL(1)>>,
    <<LL(0), LL(2000000000), LL(1)>>, <<LL(1), LL(2), LL(1)>> }

Quantities == {LL(0), LL(1), LL(2), LL(3)}

\* Configurations with numbers beyond 32 bits: a burst of LLONG_MAX, whose
\* limit burst + 1 does not fit long long; a burst of 2^34 - 1 with an
\* emission interval of a second, whose tolerance does not fit; and five
\* more than thirty per minute, where everything fits.
WideConfigs ==
  { <<LLONG_MAX, LL(1), LL(1)>>,
    <<ZSub(ZMul(LL(2 ^ 17), LL(2 ^ 17)), LL(1)), LL(1), LL(1)>>,
    <<LL(5), LL(30), LL(60)>> }

WideQuantities == {LL(0), LL(1)}

CommandName == <<"rater.limit">>

KeyName == <<"k">>

Str(x) == CreateStringFromLongLong(x)

\* RATER.LIMIT <key> <burst> <count per period> <period> [<quantity>]
ArgvsOf(configs, quantities) ==
  { <<CommandName, KeyName, Str(r[1][1]), Str(r[1][2]), Str(r[1][3]), Str(r[2])>> :
      r \in configs \X quantities }
  \cup { <<CommandName, KeyName, Str(c[1]), Str(c[2]), Str(c[3])>> : c \in configs }

ValidArgvs == ArgvsOf(Configs, Quantities)

\* Commands the handler rejects: a wrong arity and an invalid argument at
\* each position.
InvalidArgvs ==
  { <<CommandName, KeyName, Str(LL(0)), Str(LL(1))>>,
    <<CommandName, KeyName, Str(LL(-1)), Str(LL(1)), Str(LL(1)), Str(LL(1))>>,
    <<CommandName, KeyName, Str(LL(0)), Str(LL(0)), Str(LL(1)), Str(LL(1))>>,
    <<CommandName, KeyName, Str(LL(0)), Str(LL(1)), <<"1", "s">>, Str(LL(1))>>,
    <<CommandName, KeyName, Str(LL(0)), Str(LL(1)), Str(LL(1)), Str(LL(-1))>> }

Argvs == ValidArgvs \cup InvalidArgvs

\* A command whose increment wraps to -2^62 under a tolerance of 2^62, so
\* that on a fresh bucket diff wraps to LLONG_MIN and line 117 negates it:
\* burst 2^53 - 1, 1953125 per second (emission interval 512 ns), quantity
\* 3 * 2^53.
NegatesLeast ==
  <<CommandName, KeyName, Str(ZSub(ZMul(LL(2 ^ 27), LL(2 ^ 26)), LL(1))),
    Str(LL(1953125)), Str(LL(1)), Str(ZMul(LL(3 * 2 ^ 27), LL(2 ^ 26)))>>

\* A command whose period in nanoseconds is no long long: 9223372037 s.
LongPeriod ==
  <<CommandName, KeyName, Str(LL(0)), Str(LL(1)),
    Str(ZAdd(ZMul(LL(92233), LL(100000)), LL(72037)))>>

\* The commands with the wide configurations, one whose burst is
\* LLONG_MAX + 1, which is not a long long, and NegatesLeast.
WideArgvs ==
  ArgvsOf(WideConfigs, WideQuantities)
  \cup { <<CommandName, KeyName, Str(ZAdd(LLONG_MAX, LL(1))), Str(LL(1)), Str(LL(1))>>,
         NegatesLeast }

\* A command that returned the array of five integers.
Verdict(e) == e.reply.err = ""

\* A command that returned a verdict for quantity 0.
Probe(e) == Verdict(e) /\ e.args.quantity = LL(0)

ConfigOf(e) == <<e.args.burst, e.args.count_per_period, e.args.period_in_sec>>

NoConfig == <<LL(0), LL(0), LL(0)>>

NoCommand ==
  [now |-> 0, argv |-> <<>>, before |-> EmptyKey, seen |-> EmptyKey,
   after |-> EmptyKey, args |-> NoArgs, res |-> NoResult, reply |-> ErrorReply("no command yet")]

\* The history before any command.
\*   ncalls    the number of commands so far
\*   config    "none", or "fixed" when every verdict so far was given under
\*             the one configuration cfg, or "mixed"
\*   interval  the emission interval of cfg
\*   unit      every command so far got a verdict for quantity 1 under one
\*             configuration
\*   first     the instant of the first command
\*   forward   no command so far came at an earlier instant than the one
\*             before it: the clock was not set back between commands
\*   spaced    unit, and each command came at least one emission interval
\*             after the one before
\*   admitted  under a fixed configuration, the quantity admitted at each
\*             instant
NoHistory ==
  [ncalls |-> 0, config |-> "none", cfg |-> NoConfig, interval |-> LL(0),
   unit |-> TRUE, first |-> 0, spaced |-> TRUE, forward |-> TRUE,
   admitted |-> [t \in Instants |-> LL(0)]]

\* The history h after the command e, the command before it being prev.
Observe(h, prev, e) ==
  LET same == h.config = "none" \/ (h.config = "fixed" /\ h.cfg = ConfigOf(e))
      config == IF ~Verdict(e) THEN h.config
                ELSE IF same THEN "fixed" ELSE "mixed"
      unit == h.unit /\ Verdict(e) /\ e.args.quantity = LL(1) /\ same
      gain == IF Verdict(e) /\ e.res.limited = LL(0) THEN e.args.quantity ELSE LL(0)
  IN [ncalls |-> h.ncalls + 1,
      config |-> config,
      cfg |-> IF config = "fixed" THEN (IF Verdict(e) THEN ConfigOf(e) ELSE h.cfg)
              ELSE NoConfig,
      interval |-> IF config = "fixed"
                   THEN (IF Verdict(e) THEN e.res.emission_interval ELSE h.interval)
                   ELSE LL(0),
      unit |-> unit,
      first |-> IF h.ncalls = 0 THEN e.now ELSE h.first,
      forward |-> h.forward /\ (h.ncalls > 0 => e.now >= prev.now),
      spaced |-> /\ h.spaced
                 /\ unit
                 /\ h.ncalls > 0 => Leq(e.res.emission_interval, LL(e.now - prev.now)),
      admitted |-> IF config = "fixed"
                   THEN [h.admitted EXCEPT ![e.now] = ZAdd(@, gain)]
                   ELSE [t \in Instants |-> LL(0)]]

Init ==
  /\ clock = 999997
  /\ key = EmptyKey
  /\ last = NoCommand
  /\ hist = NoHistory
  /\ noprobe = [key |-> EmptyKey, reply |-> NoCommand.reply]

\* The clock shows another time at the next command.  RATE_LIMITER_CLOCK is
\* CLOCK_REALTIME by default (lines 35-39), which can be set back as well as
\* move on.
Tick ==
  /\ \E t \in Instants : t # clock /\ clock' = t
  /\ UNCHANGED <<key, last, hist, noprobe>>

\* A client's RATER.LIMIT command runs, start to finish, at the instant the
\* clock shows (get_nanos, line 93).  noprobe follows the run in which the
\* commands of quantity 0 are not sent.
RaterLimit_RedisCommand(argv) ==
  /\ hist.ncalls < MaxCalls
  /\ \E out \in Outcomes(key, argv, LL(clock)),
        shadow \in Outcomes(noprobe.key, argv, LL(clock)) :
     \E e \in {[now |-> clock, argv |-> argv, before |-> key, seen |-> out.seen,
                after |-> out.key, args |-> out.args, res |-> out.res, reply |-> out.reply]} :
        /\ key' = out.key
        /\ last' = e
        /\ hist' = Observe(hist, last, e)
        /\ noprobe' = IF Probe(e) THEN noprobe
                      ELSE [key |-> shadow.key, reply |-> shadow.reply]
  /\ UNCHANGED clock

Next ==
  \/ Tick
  \/ \E argv \in Argvs : RaterLimit_RedisCommand(argv)

Spec == Init /\ [][Next]_vars

\* The same program with the clients that send the wide configurations.
NextWide ==
  \/ Tick
  \/ \E argv \in WideArgvs : RaterLimit_RedisCommand(argv)

SpecWide == Init /\ [][NextWide]_vars

\* What another client of the store can leave under the key: a string that
\* is no number, or a value of another type (a list, say).
ForeignKeys ==
  { [type |-> "string", val |-> <<"1", "s">>, volatile |-> FALSE, expire |-> LL(0)],
    [type |-> "other", val |-> <<>>, volatile |-> FALSE, expire |-> LL(0)] }

\* Another client writes the key with a command of the store's own.
OtherClientWrites ==
  /\ \E k \in ForeignKeys :
       /\ key # k
       /\ key' = k
       /\ noprobe' = [noprobe EXCEPT !.key = k]
  /\ UNCHANGED <<clock, last, hist>>

\* The commands sent to a key that other clients write as well: the
\* commands the handler rejects, a call and a probe it accepts, and
\* LongPeriod.
ForeignArgvs ==
  InvalidArgvs
  \cup { <<CommandName, KeyName, Str(LL(1)), Str(LL(2)), Str(LL(1))>>,
         <<CommandName, KeyName, Str(LL(1)), Str(LL(2)), Str(LL(1)), Str(LL(0))>>,
         LongPeriod }

\* The same program on a key that other clients write as well.
NextForeign ==
  \/ Tick
  \/ OtherClientWrites
  \/ \E argv \in ForeignArgvs : RaterLimit_RedisCommand(argv)

SpecForeign == Init /\ [][NextForeign]_vars

----------------------------------------------------------------------------
(* The claims.                                                             *)

\* A bucket with no stored state, or with the stored value 0.
Fresh(k) ==
  k.type = "empty" \/ StringToLongLong(k.val) = [ok |-> TRUE, value |-> LL(0)]

RECURSIVE SumOver(_, _)
SumOver(f, S) ==
  IF S = {} THEN LL(0)
  ELSE LET x == CHOOSE y \in S : TRUE IN ZAdd(f[x], SumOver(f, S \ {x}))

\* C1 (burst exhaustion): on a fresh key, with one valid configuration and the
\* clock held constant, the first burst + 1 calls of quantity 1 are admitted
\* and call number burst + 2 is denied.
C1_BurstExhaustion ==
  (/\ hist.unit
   /\ hist.forward
   /\ hist.ncalls >= 1
   /\ last.now = hist.first
   /\ Leq(LL(hist.ncalls), ZAdd(last.args.burst, LL(2))))
  => (last.res.limited = LL(0)
        <=> Leq(LL(hist.ncalls), ZAdd(last.args.burst, LL(1))))

\* C2 (sustained rate bound): with one valid configuration of a positive
\* emission interval and a non-decreasing clock, the quantity admitted between
\* any two instants t1 <= t2 is at most (burst + 1) + (t2 - t1) / interval;
\* both sides are multiplied by the interval.
C2_SustainedRateBound ==
  (hist.config = "fixed" /\ hist.forward /\ Less(LL(0), hist.interval))
  => \A t1, t2 \in Instants :
       t1 <= t2 =>
         Leq(ZMul(SumOver(hist.admitted, {t \in Instants : t1 <= t /\ t <= t2}),
                  hist.interval),
             ZAdd(ZMul(ZAdd(hist.cfg[1], LL(1)), hist.interval), LL(t2 - t1)))

\* C3 (a denied call never mutates the bucket): after a call that returned
\* limited = 1 the key holds the value and the expiry it held when the call
\* opened it.
C3_DeniedLeavesKey ==
  (Verdict(last) /\ last.res.limited = LL(1))
  => key = OpenKey(last.before, LL(last.now))

\* C3's case: a call is denied on a key that holds a bucket, for a quantity
\* that fits the burst.
C3_Witness ==
  /\ Verdict(last)
  /\ last.res.limited = LL(1)
  /\ Leq(last.args.quantity, ZAdd(last.args.burst, LL(1)))
  /\ last.before.type = "string"
  /\ key = last.before

\* C5 (steady-state admission): from a fresh key, with one valid
\* configuration, calls of quantity 1 that each come at least one emission
\* interval after the one before, on a clock that is not set back, are never
\* denied.
C5_SteadyStateAdmits ==
  (hist.spaced /\ hist.forward /\ hist.ncalls >= 1) => (Verdict(last) /\ last.res.limited = LL(0))

\* C6 (fresh bucket admits): the first call on a key with no stored state, or
\* one that finds no stored state, with a quantity of at most burst + 1, is
\* admitted.
C6_FreshBucketAdmits ==
  (/\ Verdict(last)
   /\ Fresh(last.seen)
   /\ Leq(last.args.quantity, ZAdd(last.args.burst, LL(1))))
  => last.res.limited = LL(0)

\* C7 as claimed (a probe is never limited): a call of quantity 0 returns
\* limited = 0 in every state of the key and under every configuration
\* supplied with it; stated here for the configurations of a positive emission
\* interval and a clock that is not set back.
C7_ProbeNeverLimited ==
  (Probe(last) /\ hist.forward /\ Less(LL(0), last.res.emission_interval))
  => last.res.limited = LL(0)

\* C7 as amended: when nothing in the call overflows, a call of quantity 0
\* is limited exactly when the arrival time it reads lies beyond now plus the
\* tolerance of its own configuration, and never when every call on the key
\* so far used one configuration and the clock was not set back.
C7_ProbeLimitedBeyondTolerance ==
  (Probe(last) /\ ~last.res.undefined) =>
    /\ last.res.limited = LL(1)
         <=> Less(ZAdd(LL(last.now), last.res.tolerance), last.res.tat)
    /\ (hist.config = "fixed" /\ hist.forward) => last.res.limited = LL(0)

\* C7's case: a probe of a bucket whose backlog is exactly the tolerance.
C7_Witness ==
  /\ Probe(last)
  /\ hist.config = "fixed"
  /\ hist.forward
  /\ Less(LL(0), last.res.tolerance)
  /\ last.res.tat = ZAdd(LL(last.now), last.res.tolerance)
  /\ last.res.limited = LL(0)

\* C8 (probe neutrality): a call of a positive quantity gets the reply it
\* gets in the same sequence of calls without the calls of quantity 0; stated
\* here for a clock that is not set back.
C8_ProbeNeutrality ==
  (Verdict(last) /\ hist.forward /\ Less(LL(0), last.args.quantity)) => last.reply = noprobe.reply

\* C9 (remaining within the limit): in every reply 0 <= remaining <= limit;
\* stated here for the calls of a key used under one configuration on a
\* clock that is not set back.
C9_RemainingWithinLimit ==
  (Verdict(last) /\ hist.config = "fixed" /\ hist.forward) =>
    (Leq(LL(0), last.reply.remaining) /\ Leq(last.reply.remaining, last.reply.limit))

\* C10 (ttl bound): in every reply the ttl is non-negative, the reported
\* seconds are at most the tolerance of the call's configuration, and in the
\* denied branch ttl = effective arrival - now is >= 0; stated here for the
\* calls of a key used under one configuration on a clock that is not set
\* back.
C10_TtlBound ==
  (Verdict(last) /\ hist.config = "fixed" /\ hist.forward) =>
    /\ Leq(LL(0), last.res.ttl_ns)
    /\ Leq(LL(0), last.reply.ttl)
    /\ Leq(ZMul(last.reply.ttl, LL(NSEC_PER_SEC)), last.res.tolerance)
    /\ last.res.limited = LL(1) => Leq(LL(0), ZSub(last.res.tat, LL(last.now)))

\* The arrival time a command reads: now on a fresh bucket (lines 97-99).
ArrivalRead(e) ==
  IF Fresh(e.seen) THEN LL(e.now) ELSE StringToLongLong(e.seen.val).value

\* max(now, effectiveArrival) + emissionInterval * cost of the command e, in
\* long long as lines 101-107 compute it.
NewArrival(e) ==
  Add(IF Less(ArrivalRead(e), LL(e.now)) THEN LL(e.now) ELSE ArrivalRead(e),
      Mul(e.res.emission_interval, e.args.quantity))

\* The key k holds the arrival time arrival, written at the instant now with
\* the expiry trunc(ttl / 1e6) milliseconds for ttl = arrival - now, and the
\* reply reports that expiry in seconds, which is trunc(ttl / 1e9).
PersistedWith(k, reply, arrival, now) ==
  /\ k.type = "string"
  /\ k.val = CreateStringFromLongLong(arrival)
  /\ k.volatile
  /\ k.expire = Add(mstime(now), Div(Sub(arrival, now), LL(USEC_PER_SEC)))
  /\ reply.ttl = Div(Div(Sub(arrival, now), LL(USEC_PER_SEC)), LL(MSEC_PER_SEC))
  /\ reply.ttl = Div(Sub(arrival, now), LL(NSEC_PER_SEC))

\* C11 (an admitted call persists the new arrival time and its ttl): after a
\* call that returned limited = 0 the key holds max(now, effectiveArrival) +
\* emissionInterval * cost with the expiry trunc(ttl / 1e6) ms, and the reply
\* reports trunc(expiry / 1000) = trunc(ttl / 1e9) seconds.
C11_AdmittedPersists ==
  (Verdict(last) /\ last.res.limited = LL(0))
  => PersistedWith(key, last.reply, NewArrival(last), LL(last.now))

\* The command e sent again, on the key k, the given seconds after e.
Retry(e, k, seconds) ==
  Command(k, e.argv, ZAdd(LL(e.now), ZMul(seconds, LL(NSEC_PER_SEC))))

\* C12 (retry-after gets through): when a call is denied with
\* retry_after = r >= 0, the same call made r seconds later, with no other
\* call on the key in between, is admitted; stated here for a clock that is
\* not set back.
C12_RetryAfterGetsThrough ==
  (/\ Verdict(last)
   /\ hist.forward
   /\ last.res.limited = LL(1)
   /\ Leq(LL(0), last.reply.retry_after))
  => Retry(last, key, last.reply.retry_after).reply.limited = LL(0)

\* The cost of the command e cannot fit at all: cost > burst + 1.
CannotFit(e) == Less(ZAdd(e.args.burst, LL(1)), e.args.quantity)

\* C13 (the retry-after sentinel): retry_after is -1 exactly when the call is
\* admitted or its cost exceeds burst + 1; a call whose cost exceeds
\* burst + 1 is denied in every state; a denied call with cost <= burst + 1
\* reports retry_after = trunc(-diff / 1e9) >= 0.
C13_RetryAfterSentinel ==
  Verdict(last) =>
    /\ last.reply.retry_after = LL(-1)
         <=> (last.res.limited = LL(0) \/ CannotFit(last))
    /\ CannotFit(last) => last.res.limited = LL(1)
    /\ (last.res.limited = LL(1) /\ ~CannotFit(last)) =>
         /\ last.reply.retry_after = ZDiv(ZNeg(last.res.diff), LL(NSEC_PER_SEC))
         /\ Leq(LL(0), last.reply.retry_after)

\* The arguments of a call of quantity q under the configuration of e.
SameConfig(e, q) ==
  <<CommandName, KeyName, Str(e.args.burst), Str(e.args.count_per_period),
    Str(e.args.period_in_sec), Str(q)>>

Smaller(x, y) == IF Less(x, y) THEN x ELSE y

\* The remaining that a bucket showing rem has after d nanoseconds without
\* an admitted call: one unit more per emission interval ei, up to limit; a
\* part of an emission interval may complete one more unit.
Recovered(rem, d, ei, limit, later) ==
  /\ Leq(Smaller(limit, ZAdd(rem, ZDiv(d, ei))), later)
  /\ Leq(later, IF ZMul(ZDiv(d, ei), ei) = d
                THEN Smaller(limit, ZAdd(rem, ZDiv(d, ei)))
                ELSE Smaller(limit, ZAdd(rem, ZAdd(ZDiv(d, ei), LL(1)))))

\* With the clock held constant the next call under the same configuration
\* reports no more remaining than the last one.
NonIncreasing ==
  \A q \in Quantities :
    Leq(Command(key, SameConfig(last, q), LL(last.now)).reply.remaining,
        last.reply.remaining)

\* After a probe, a probe at a later instant reports no less remaining, and
\* as much more as the time between them has recovered.
RecoversLinearly ==
  \A t \in Instants :
    t >= last.now =>
      /\ Leq(last.reply.remaining,
             Command(key, last.argv, LL(t)).reply.remaining)
      /\ Less(LL(0), last.res.emission_interval) =>
           Recovered(last.reply.remaining, LL(t - last.now),
                     last.res.emission_interval, last.reply.limit,
                     Command(key, last.argv, LL(t)).reply.remaining)

\* C14 (monotonic remaining): with one configuration on the key, (a) with
\* the clock held constant the remaining of successive calls is
\* non-increasing, and (b) with no admitted cost in between, a later probe
\* reports no less remaining than an earlier one, one unit more per emission
\* interval elapsed, up to limit; stated here for a clock that is not set
\* back.
C14_MonotonicRemaining ==
  (Verdict(last) /\ hist.config = "fixed" /\ hist.forward) =>
    /\ NonIncreasing
    /\ Probe(last) => RecoversLinearly

\* C15 (peek): a call of quantity 0 performs no update on the storage: after
\* it the key exists or not, and holds the value and the expiry, as when the
\* call opened it.
C15_PeekLeavesKey ==
  Probe(last) => key = OpenKey(last.before, LL(last.now))

\* Arguments, as parsed, that are no valid configuration and cost: one of
\* them is no integer, or burst < 0, countPerPeriod <= 0, periodSeconds <= 0
\* or cost < 0.
BadArgs(p) ==
  \/ ~p.burst.ok \/ Less(p.burst.value, LL(0))
  \/ ~p.count_per_period.ok \/ Leq(p.count_per_period.value, LL(0))
  \/ ~p.period_in_sec.ok \/ Leq(p.period_in_sec.value, LL(0))
  \/ ~p.quantity.ok \/ Less(p.quantity.value, LL(0))

\* A key that holds no bucket: a value of another type, or a string that is
\* no integer.
Corrupted(k) ==
  k.type = "other" \/ (k.type = "string" /\ ~StringToLongLong(k.val).ok)

\* C16 (rejected calls): a call with an invalid argument, or on a key whose
\* value is no integer or of another type, gets an error and no verdict, the
\* decision does not run, and every call that gets an error closes the key
\* with the value and the expiry it had when the call opened it.
C16_RejectedLeavesKey ==
  last.argv # <<>> =>
    /\ (/\ Len(last.argv) \in {5, 6}
        /\ BadArgs(ParseArgs(last.argv)) \/ Corrupted(last.seen))
       => (~Verdict(last) /\ last.res = NoResult)
    /\ ~Verdict(last) => last.after = last.seen

\* C16's case: a call on a key that another client has set to a string that
\* is no integer is rejected, and the key still holds that string.
C16_Witness ==
  /\ last.reply.err = "ERR invalid stored rater"
  /\ last.res = NoResult
  /\ last.seen \in ForeignKeys
  /\ last.after = last.seen

\* A call the handler accepts: the right number of arguments, valid
\* arguments p, and a key that holds a bucket or nothing.
Accepted(e, p) ==
  /\ Len(e.argv) \in {5, 6}
  /\ ~BadArgs(p)
  /\ ~Corrupted(e.seen)

\* The emission interval of the arguments p as lines 84-85 compute it: from
\* the period in nanoseconds as a long long, the product modulo 2^64.
IntervalOf(p) ==
  CastToLongLong(emission_interval(Wrap(period_in_nsec(p.period_in_sec.value)),
                                   p.count_per_period.value))

\* One of the three products of the arguments p, as integers and with the
\* emission interval ei, is no long long.
ProductOverflows(p, ei) ==
  \/ ~InLongLong(period_in_nsec(p.period_in_sec.value))
  \/ ~InLongLong(delay_variation_tolerance(ei, limit_of(p.burst.value)))
  \/ ~InLongLong(increment_of(ei, p.quantity.value))

\* The call e with the arguments p, when accepted with a product that does
\* not fit, ended in an error and closed the key as it opened it.
OverflowReported(e, p) ==
  (Accepted(e, p) /\ ProductOverflows(p, IntervalOf(p)))
    => (~Verdict(e) /\ e.after = e.seen)

\* C17 (overflow detected): an accepted call for which periodSeconds * 1e9,
\* emissionInterval * (burst + 1) or emissionInterval * cost does not fit in a
\* signed 64-bit integer gets an error, and no verdict computed from wrapped
\* values is returned or stored.
C17_OverflowDetected ==
  last.argv # <<>> => OverflowReported(last, ParseArgs(last.argv))

\* C18 (positive emission interval): every call that gets a verdict was
\* decided with an emission interval > 0 and a tolerance > 0, and its
\* decision did not divide by zero.
C18_PositiveInterval ==
  Verdict(last) =>
    /\ Less(LL(0), last.res.emission_interval)
    /\ Less(LL(0), last.res.tolerance)
    /\ ~last.res.undefined

\* The key k in a store that never drops it: the stored value stays when the
\* expiry has passed.
KeepForever(k) == [k EXCEPT !.volatile = FALSE]

\* C19 (expiry is transparent): whatever the key holds, the next call, at any
\* instant from now on, gets the same five reply values whether the store
\* drops the key at its expiry or keeps the stored timestamp forever; stated
\* here for a clock that is not set back.
C19_ExpiryTransparent ==
  \A argv \in ValidArgvs, t \in Instants :
    (hist.forward /\ t >= clock /\ t >= last.now) =>
      Command(key, argv, LL(t)).reply = Command(KeepForever(key), argv, LL(t)).reply

\* The most unit calls that are counted in a row.
MaxInARow == 4

RECURSIVE AdmittedInARow(_, _, _, _)
\* The number of calls argv admitted back to back at the instant now, out
\* being the outcome of the first of them, counted up to fuel.
AdmittedInARow(out, argv, now, fuel) ==
  IF fuel = 0 \/ out.reply.err # "" \/ out.reply.limited # LL(0) THEN 0
  ELSE 1 + AdmittedInARow(Command(out.key, argv, now), argv, now, fuel - 1)

\* The capacity left after the call e on the key k: the number of further
\* calls of quantity 1 under e's configuration admitted at e's instant.
CapacityLeft(e, k) ==
  AdmittedInARow(Command(k, SameConfig(e, LL(1)), LL(e.now)),
                 SameConfig(e, LL(1)), LL(e.now), MaxInARow)

\* C20 (remaining is the capacity left): in every reply, admitted or denied,
\* remaining is the number of further calls of quantity 1 on the same key and
\* with the same configuration that are admitted back to back at the instant
\* of the reply; stated here for a clock that is not set back.
C20_RemainingIsCapacity ==
  (Verdict(last) /\ hist.forward) => last.reply.remaining = LL(CapacityLeft(last, key))

====
